---- MODULE Spec2Model ----
(***************************************************************************)
(* Model of the NeXOS A2 hydrophone client (src/nexosA2/nexos.py): the     *)
(* ASCII command/response protocol over a serial line or a UDP socket and  *)
(* the streaming capture loop that writes WAV files.                       *)
(*                                                                         *)
(* Python strings are sequences of tokens: a token is one character, or an *)
(* indivisible chunk of characters that holds no quote, no blank and no    *)
(* line terminator (a command path, the word RUN_CONTINUOUS).  Numbers are *)
(* always spelled digit by digit.  Python values carry their type:         *)
(* PyInt(n), PyStr(s), PyNone.                                             *)
(***************************************************************************)
EXTENDS Integers, Sequences, FiniteSets, TLC

VARIABLES self, dev, udp_rx, ser_rx, last, hung, devFaithful, clean, budget, cap,
          heap, tasks, files, now, cont

vars == <<self, dev, udp_rx, ser_rx, last, hung, devFaithful, clean, budget, cap,
          heap, tasks, files, now, cont>>

\* ------------------------------------------------------------------------
\* Characters and Python values
\* ------------------------------------------------------------------------
DQ == "\""
SP == " "
CR == "CR"
LF == "LF"
QM == "?"

PyNone == [t |-> "none"]
PyInt(n) == [t |-> "int", v |-> n]
PyStr(s) == [t |-> "str", v |-> s]
PyBool(b) == [t |-> "bool", v |-> b]

Digits == <<"0", "1", "2", "3", "4", "5", "6", "7", "8", "9">>

RECURSIVE NatToStr(_)
NatToStr(n) ==
    IF n < 10 THEN <<Digits[n + 1]>>
    ELSE NatToStr(n \div 10) \o <<Digits[(n % 10) + 1]>>

\* str(value) for the values the client formats: an int, or a bool
IntToStr(n) == IF n < 0 THEN <<"-">> \o NatToStr(0 - n) ELSE NatToStr(n)

str(value) ==
    CASE value.t = "int" -> IntToStr(value.v)
      [] value.t = "bool" -> IF value.v THEN <<"True">> ELSE <<"False">>
      [] value.t = "none" -> <<"None">>
      [] OTHER -> value.v

DigitVal(c) == CHOOSE d \in 0..9 : Digits[d + 1] = c

IsDigit(c) == \E d \in 0..9 : Digits[d + 1] = c

\* the number the first k digits of s spell
RECURSIVE DigitsToNat(_, _)
DigitsToNat(s, k) ==
    IF k = 0 THEN 0 ELSE 10 * DigitsToNat(s, k - 1) + DigitVal(s[k])

\* int(r) accepts a digit string (an optional sign first); anything else,
\* the empty string included, raises ValueError
IntParses(s) ==
    LET body == IF Len(s) > 0 /\ s[1] = "-" THEN Tail(s) ELSE s
    IN Len(body) > 0 /\ \A i \in 1..Len(body) : IsDigit(body[i])

StrToInt(s) ==
    IF s[1] = "-" THEN 0 - DigitsToNat(Tail(s), Len(s) - 1) ELSE DigitsToNat(s, Len(s))

\* s.replace("\"", ""): every occurrence of the character goes, wherever it
\* stands
RemoveAll(s, c) == SelectSeq(s, LAMBDA x : x # c)

\* s.replace("\r\n", ""): every CR LF pair goes, scanning left to right from
\* position i
RECURSIVE RemoveCRLFFrom(_, _)
RemoveCRLFFrom(s, i) ==
    IF i > Len(s) THEN <<>>
    ELSE IF i < Len(s) /\ s[i] = CR /\ s[i + 1] = LF THEN RemoveCRLFFrom(s, i + 2)
    ELSE <<s[i]>> \o RemoveCRLFFrom(s, i + 1)

RemoveCRLF(s) == RemoveCRLFFrom(s, 1)

EndsWithCRLF(s) == Len(s) >= 2 /\ s[Len(s) - 1] = CR /\ s[Len(s)] = LF

RECURSIVE Flatten(_)
Flatten(ss) == IF Len(ss) = 0 THEN <<>> ELSE Head(ss) \o Flatten(Tail(ss))

\* ------------------------------------------------------------------------
\* Program constants (NeXOS.__init__) and the command paths the client uses
\* ------------------------------------------------------------------------
streaming_port == 4002
packetSize == 1036
samplesPerPacket == 512
valid_srates == {100000, 50000, 200000}
recv_n == 256

P_IDN == "*idn"
P_VER == "SYSTem:VERSion"
P_RADDR == "SYSTem:COMMunicate:LAN:RADDRess"
P_RPORT == "SYSTem:COMMunicate:LAN:RPORT"
P_SRATE == "CONFigure:ACQuire:SRATe"
P_IN1 == "INPut1:STATe"
P_IN2 == "INPut2:STATe"
P_GAIN == "INPut1:GAIN:STATe"
P_EQ == "INPut1:EQUalizer:STATe"
P_STATE == "CONFigure:STATe"

RUN_CONTINUOUS == <<"R", "U", "N", "_", "C", "O", "N", "T", "I", "N", "U", "O", "U", "S">>
STOP == <<"S", "T", "O", "P">>
NA == <<"n", "a">>

\* ------------------------------------------------------------------------
\* The world a handler runs in: the client object, the device, the receive
\* buffers of the two media, and what this call has put on the wire so far.
\* A handler is an operator from world to world; exc is the exception that
\* is propagating ("none" while the call is still running normally).
\* ------------------------------------------------------------------------
E_NONE == "none"
E_MISMATCH == "ValueError: could not set param"
E_INT == "ValueError: invalid literal for int()"
E_SERIAL == "ValueError: Serial already configured!"
E_TIMEOUT == "socket.timeout"
E_ASSERT == "AssertionError"
E_ATTR == "AttributeError"
E_OS == "OSError"
\* not an exception: the call never returns
E_HANG == "blocks forever"

\* sequencing: F applied to the world the step before it left
Then(w, F(_)) == CHOOSE r \in {F(x) : x \in {w}} : TRUE

Raise(w, e) == [w EXCEPT !.exc = e]
Return(w, v) == [w EXCEPT !.ret = v]
Running(w) == w.exc = E_NONE

\* ------------------------------------------------------------------------
\* The device (environment).  It keeps one value per command path, answers
\* a query with the stored value and applies a set command.  How it treats
\* the frames of one call is scripted: every frame is handled faithfully
\* except frame number script.at, which gets script.beh.
\* ------------------------------------------------------------------------
DevBehaviour(w) ==
    IF w.script.at = Len(w.tx) + 1 THEN w.script.beh ELSE "ok"

\* two ways to answer with another value than the stored one
Garbled(v) == IF Len(v) >= 2 THEN <<Head(v), DQ>> \o Tail(v) ELSE v \o <<"9">>
Other(v) == v \o <<"9">>

\* a leading and a trailing quote are framing, not part of the value
Unquote(s) ==
    LET a == IF Len(s) > 0 /\ Head(s) = DQ THEN Tail(s) ELSE s
    IN IF Len(a) > 0 /\ a[Len(a)] = DQ THEN SubSeq(a, 1, Len(a) - 1) ELSE a

DevStore(d, p, arg) ==
    IF p \notin DOMAIN d THEN d
    ELSE IF p = P_IN1 /\ arg = <<"1">> THEN [d EXCEPT ![P_IN1] = <<"1">>, ![P_IN2] = <<"0">>]
    ELSE IF p = P_IN2 /\ arg = <<"1">> THEN [d EXCEPT ![P_IN1] = <<"0">>, ![P_IN2] = <<"1">>]
    ELSE IF p \in {P_IN1, P_IN2, P_IDN, P_VER} THEN d
    ELSE [d EXCEPT ![p] = arg]

\* the datagrams (UDP) the device answers a query with
DevAnswer(d, p, b) ==
    LET v == IF p \in DOMAIN d THEN d[p] ELSE <<>>
    IN CASE p \notin DOMAIN d -> <<>>
         [] b = "drop" -> <<>>
         [] b = "okq" -> << <<DQ>> \o v \o <<DQ, CR, LF>> >>
         [] b = "garble" -> << Garbled(v) \o <<CR, LF>> >>
         [] b = "other" -> << Other(v) \o <<CR, LF>> >>
         [] b = "split" -> << v, <<CR, LF>> >>
         [] OTHER -> << v \o <<CR, LF>> >>

\* the device receives one frame over medium via ("udp" or "serial")
DevHandle(w, frame, via) ==
    LET b == DevBehaviour(w)
        p == frame[1]
        isQuery == Len(frame) >= 2 /\ frame[2] = QM
        arg == Unquote(SubSeq(frame, 3, Len(frame) - 2))
        ans == DevAnswer(w.dev, p, b)
        w1 == [w EXCEPT !.tx = Append(@, frame)]
    IN IF isQuery THEN
           IF b = "late" THEN [w1 EXCEPT !.late = @ \o ans]
           ELSE IF via = "udp" THEN [w1 EXCEPT !.udp_rx = @ \o ans]
           ELSE [w1 EXCEPT !.ser_rx = @ \o Flatten(ans)]
       ELSE IF b = "drop" THEN w1
       ELSE [w1 EXCEPT !.dev = DevStore(@, p, arg)]

\* ------------------------------------------------------------------------
\* Transport
\* ------------------------------------------------------------------------
\* recv_serial: read byte by byte until the response ends with CR LF or
\* holds n characters.  serial.read(1) returns '' after its 1 s timeout and
\* the loop goes round again, so with nothing on the line and nothing
\* coming the loop repeats in the same state for ever: exc = "hang".
\* The loop runs over the bytes that are on the line, or on their way, when
\* it starts: it has read the first i of them.
SerialLine(w) == w.ser_rx \o Flatten(w.late)

RECURSIVE recv_serial_loop(_, _, _)
recv_serial_loop(w, i, n) ==
    LET response == SubSeq(SerialLine(w), 1, i)
    IN IF EndsWithCRLF(response) \/ ~(Len(response) < n)
       THEN Return([w EXCEPT !.ser_rx = SubSeq(SerialLine(w), i + 1, Len(SerialLine(w))),
                             !.late = <<>>],
                   PyStr(RemoveCRLF(response)))
       ELSE IF i < Len(SerialLine(w)) THEN recv_serial_loop(w, i + 1, n)
       ELSE Raise([w EXCEPT !.ser_rx = <<>>, !.late = <<>>], E_HANG)

recv_serial(w, n) == recv_serial_loop(w, 0, n)

send_serial(w, cmd) ==
    IF w.self.serial = PyNone THEN Raise(w, E_ATTR)
    ELSE DevHandle(w, cmd, "serial")

\* recv_udp: socket.recv raises socket.timeout when no datagram arrives
\* within the 2 s set by init_udp; a late answer lands in the buffer after it
RECURSIVE recv_udp_loop(_, _)
recv_udp_loop(w, buffer) ==
    IF w.udp_rx = <<>>
    THEN Raise([w EXCEPT !.udp_rx = w.late, !.late = <<>>], E_TIMEOUT)
    ELSE Then(buffer \o Head(w.udp_rx), LAMBDA buf :
         Then([w EXCEPT !.udp_rx = Tail(@)], LAMBDA w1 :
              IF Len(buf) >= 2 /\ SubSeq(buf, Len(buf) - 1, Len(buf)) = <<CR, LF>>
              THEN Return(w1, PyStr(RemoveCRLF(buf)))
              ELSE recv_udp_loop(w1, buf)))

recv_udp(w) ==
    IF w.self.socket = PyNone THEN Raise(w, E_ATTR)
    ELSE recv_udp_loop(w, <<>>)

send_udp(w, cmd) ==
    IF w.self.socket = PyNone THEN Raise(w, E_ATTR)
    ELSE DevHandle(w, cmd, "udp")

send(w, string) ==
    IF ~Running(w) THEN w
    ELSE IF w.self.interface \notin {PyStr("udp"), PyStr("serial")} THEN Raise(w, E_ASSERT)
    ELSE LET cmd == string \o <<CR, LF>>
         IN IF w.self.interface = PyStr("serial") THEN send_serial(w, cmd)
            ELSE send_udp(w, cmd)

recv(w, n) ==
    IF ~Running(w) THEN w
    ELSE IF w.self.interface = PyStr("udp") THEN recv_udp(w)
    ELSE IF w.self.interface = PyStr("serial") THEN recv_serial(w, n)
    ELSE Return(w, PyNone)

\* ------------------------------------------------------------------------
\* Command protocol
\* ------------------------------------------------------------------------
\* query that hands the answer back exactly as received, quotes included
query_keepquotes(w, command) ==
    Then(send(w, command), LAMBDA w1 :
    Then(recv(w1, recv_n), LAMBDA r :
         IF ~Running(r) THEN r
         ELSE IF r.ret = PyNone THEN Raise(r, E_ATTR)
         ELSE Return([r EXCEPT !.rx = Append(@, r.ret.v)], PyStr(r.ret.v))))

query(w, command) ==
    Then(send(w, command), LAMBDA w1 :
    Then(recv(w1, recv_n), LAMBDA r :
         IF ~Running(r) THEN r
         ELSE IF r.ret = PyNone THEN Raise(r, E_ATTR)
         ELSE Return([r EXCEPT !.rx = Append(@, r.ret.v)], PyStr(RemoveAll(r.ret.v, DQ)))))

\* set that sends the command and the verification query once more after a
\* mismatch
set_retry(w, param, value, enclose) ==
    LET v == IF value.t # "str" THEN str(value) ELSE value.v
        cmd == IF ~enclose THEN <<param, SP>> \o v ELSE <<param, SP, DQ>> \o v \o <<DQ>>
        once(w0) ==
            Then(send(w0, cmd), LAMBDA w1 :
            Then(query(w1, <<param, QM>>), LAMBDA returned_value :
                 IF ~Running(returned_value) THEN returned_value
                 ELSE IF returned_value.ret.v # v THEN Raise(returned_value, E_MISMATCH)
                 ELSE Return(returned_value, PyNone)))
    IN Then(once(w), LAMBDA r :
            IF r.exc = E_MISMATCH THEN once([r EXCEPT !.exc = E_NONE]) ELSE r)

set(w, param, value, enclose) ==
    LET v == IF value.t # "str" THEN str(value) ELSE value.v
        cmd == IF ~enclose THEN <<param, SP>> \o v
               ELSE <<param, SP, DQ>> \o v \o <<DQ>>
    IN Then(send(w, cmd), LAMBDA w1 :
       Then(query(w1, <<param, QM>>), LAMBDA returned_value :
            IF ~Running(returned_value) THEN returned_value
            ELSE IF returned_value.ret.v # v THEN Raise(returned_value, E_MISMATCH)
            ELSE Return(returned_value, PyNone)))


\* ------------------------------------------------------------------------
\* High-level functions
\* ------------------------------------------------------------------------
set_recv_ip(w, ip_addr) ==
    IF ip_addr.t # "str" THEN Raise(w, E_ASSERT)
    ELSE set(w, P_RADDR, ip_addr, TRUE)

set_recv_port(w, port) ==
    IF port.t # "int" THEN Raise(w, E_ASSERT)
    ELSE set(w, P_RPORT, port, FALSE)

\* set_srate that sends whatever integer it is given
set_srate_unchecked(w, srate) ==
    IF srate.t # "int" THEN Raise(w, E_ASSERT)
    ELSE set(w, P_SRATE, srate, FALSE)

set_srate(w, srate) ==
    IF srate.t # "int" THEN Raise(w, E_ASSERT)
    ELSE IF srate.v \notin valid_srates THEN Raise(w, E_ASSERT)
    ELSE set(w, P_SRATE, srate, FALSE)

\* int(self.query(...))
int_of(w) ==
    IF ~Running(w) THEN w
    ELSE IF ~IntParses(w.ret.v) THEN Raise(w, E_INT)
    ELSE Return(w, PyInt(StrToInt(w.ret.v)))

get_srate(w) == Then(query(w, <<P_SRATE, QM>>), LAMBDA r : int_of(r))

set_channel(w, ch) ==
    IF ~(ch.t = "int" /\ ch.v \in {1, 2}) THEN Raise(w, E_ASSERT)
    ELSE set(w, IF ch.v = 1 THEN P_IN1 ELSE P_IN2, PyInt(1), FALSE)

get_channel(w) ==
    Then(query(w, <<P_IN1, QM>>), LAMBDA r :
    Then(int_of(r), LAMBDA i :
         IF ~Running(i) THEN i
         ELSE IF i.ret.v = 1 THEN Return(i, PyInt(1)) ELSE Return(i, PyInt(2))))

set_gain(w, value) ==
    IF value.t # "bool" THEN Raise(w, E_ASSERT)
    ELSE IF value.v THEN set(w, P_GAIN, PyInt(1), FALSE)
    ELSE set(w, P_GAIN, PyInt(0), FALSE)

get_gain(w) == query(w, <<P_GAIN, QM>>)

set_equalizer(w, value) ==
    IF value.t # "bool" THEN Raise(w, E_ASSERT)
    ELSE set(w, P_EQ, PyInt(IF value.v THEN 1 ELSE 0), FALSE)

get_equalizer(w) == query(w, <<P_EQ, QM>>)

\* self.<field> = <what the call just returned>, unless it raised
Assign(w, field) == IF Running(w) THEN [w EXCEPT !.self[field] = w.ret] ELSE w

AssignValue(w, field, v) == IF Running(w) THEN [w EXCEPT !.self[field] = v] ELSE w

EmptyDict == [t |-> "dict", len |-> 0]

Dict(name, version, channel, srate, gain, equalizer) ==
    [t |-> "dict", len |-> 6,
     items |-> [name |-> name, version |-> version, channel |-> channel,
                srate |-> srate, gain |-> gain, equalizer |-> equalizer]]

\* the channel-1 settings, or "na" on channel 2
\* a refresh that asks for equalizer and gain whatever the channel is
get_config_anych(w) ==
    IF ~Running(w) THEN w
    ELSE Then(get_equalizer(w), LAMBDA e :
         Then(Assign(e, "eq_status"), LAMBDA e1 :
         Then(get_gain(e1), LAMBDA g : Assign(g, "gain_status"))))

get_config_ch1(w) ==
    IF ~Running(w) THEN w
    ELSE IF w.self.ch = PyInt(1)
    THEN Then(get_equalizer(w), LAMBDA e :
         Then(Assign(e, "eq_status"), LAMBDA e1 :
         Then(get_gain(e1), LAMBDA g : Assign(g, "gain_status"))))
    ELSE AssignValue(AssignValue(w, "eq_status", PyStr(NA)), "gain_status", PyStr(NA))

\* a refresh that updates the dict self.config_info already refers to
bind_config_inplace(w, config) ==
    [w EXCEPT !.self.config_info = config, !.heap[Len(w.heap)] = config]

\* config = {...}; self.config_info = config: the name is bound to a new
\* dict, the dict it referred to before is left as it is
bind_config(w, config) ==
    [w EXCEPT !.self.config_info = config, !.heap = Append(@, config)]

get_config(w) ==
    Then(get_channel(w), LAMBDA c :
    Then(Assign(c, "ch"), LAMBDA w1 :
    Then(get_config_ch1(w1), LAMBDA w2 :
    Then(get_srate(w2), LAMBDA s :
    Then(Assign(s, "srate"), LAMBDA w3 :
    Then(query(w3, <<P_IDN, QM>>), LAMBDA w4 :
    Then(query(w4, <<P_VER, QM>>), LAMBDA w5 :
         IF ~Running(w5) THEN w5
         ELSE LET config == Dict(w4.ret, w5.ret, w5.self.ch, w5.self.srate,
                                 w5.self.gain_status, w5.self.eq_status)
              IN Return(bind_config(w5, config), config))))))))

\* start_streaming that sets the run state before the port and the refresh
start_streaming_runfirst(w) ==
    Then(set(w, P_STATE, PyStr(RUN_CONTINUOUS), FALSE), LAMBDA w1 :
    Then(set_recv_port(w1, w1.self.streaming_port), LAMBDA w2 :
         get_config(w2)))

start_streaming(w) ==
    Then(set_recv_port(w, w.self.streaming_port), LAMBDA w1 :
    Then(get_config(w1), LAMBDA w2 :
         set(w2, P_STATE, PyStr(RUN_CONTINUOUS), FALSE)))

stop_streaming(w) == set(w, P_STATE, PyStr(STOP), FALSE)


\* ------------------------------------------------------------------------
\* Sockets and the two initialisers
\* ------------------------------------------------------------------------
Socket(id, port) == [t |-> "socket", id |-> id, port |-> port, closed |-> FALSE]

SocketId(x) == IF x.t = "socket" THEN x.id ELSE 0

\* not self.<x>: None and the empty string are false
Falsy(x) == x.t = "none"

init_serial(w, opens) ==
    IF ~Falsy(w.self.serial) THEN Raise(w, E_SERIAL)
    ELSE IF ~opens THEN Raise(w, "SerialException")
    ELSE LET w1 == [w EXCEPT !.self.serial = [t |-> "serial"], !.ser_rx = <<>>]
         IN IF Falsy(w1.self.interface) THEN [w1 EXCEPT !.self.interface = PyStr("serial")]
            ELSE w1

\* the probe goes out with socket.sendto directly, terminated LF CR
init_udp(w) ==
    Then([w EXCEPT !.self.socket = Socket(SocketId(@) + 1, 0), !.udp_rx = <<>>], LAMBDA w1 :
    Then(DevHandle(w1, <<P_IDN, QM, LF, CR>>, "udp"), LAMBDA w2 :
    Then(recv_udp(w2), LAMBDA data :
         IF ~Running(data) THEN data
         ELSE IF Falsy(data.self.interface) THEN [data EXCEPT !.self.interface = PyStr("udp")]
         ELSE data)))

set_interface(w, interface) ==
    IF interface \notin {"udp", "serial"} THEN Raise(w, E_ASSERT)
    ELSE [w EXCEPT !.self.interface = PyStr(interface)]

\* ------------------------------------------------------------------------
\* Stream socket
\* ------------------------------------------------------------------------
\* Rebinding self.stream_socket drops the last reference to the socket it
\* held, which closes that socket (reference counting), so the bind that
\* follows finds the port free.
open_stream(w, port) ==
    LET w1 == [w EXCEPT !.self.stream_socket = Socket(SocketId(@) + 1, port)]
    IN [w1 EXCEPT !.self.open_stream_port = TRUE]

\* self.stream_socket does not exist before the first open_stream
close_stream(w) ==
    IF w.self.stream_socket.t # "socket" THEN Raise(w, E_ATTR)
    ELSE [w EXCEPT !.self.stream_socket.closed = TRUE, !.self.open_stream_port = FALSE]

\* ------------------------------------------------------------------------
\* Capture
\* ------------------------------------------------------------------------
\* int.from_bytes(rawdata[2:4], byteorder='big')
from_bytes_big(b) == b[1] * 256 + b[2]

\* the datagram the device sends for sequence number seq (16 bits, big
\* endian) carrying payload number k
Packet(seq, k) == [seqbytes |-> <<(seq \div 256) % 256, seq % 256>>, payload |-> k]

receivePacket(w, rawdata) ==
    IF w.self.stream_socket.closed THEN Raise(w, E_OS)
    ELSE LET old == w.self.newSeqNum
             new == from_bytes_big(rawdata.seqbytes)
         IN Return([w EXCEPT !.self.oldSeqNum = IF old = -1 THEN new - 1 ELSE old,
                             !.self.newSeqNum = new],
                   PyInt(rawdata.payload))

\* int(seconds * self.srate / self.samplesPerPacket), seconds = ms / 1000
npackets_of(ms, srate) == (ms * srate) \div (1000 * samplesPerPacket)

\* write_wav that refreshes the configuration on every call
write_wav_enter_refresh(w) ==
    Then(Then(get_config(w), LAMBDA c : Assign(c, "config_info")), LAMBDA w1 :
         IF ~Running(w1) THEN w1
         ELSE IF w1.self.open_stream_port = FALSE THEN open_stream(w1, w1.self.streaming_port.v)
         ELSE w1)

\* write_wav that opens a stream socket whatever the flag says
write_wav_enter_reopen(w) ==
    Then(IF w.self.config_info.len = 0
         THEN Then(get_config(w), LAMBDA c : Assign(c, "config_info"))
         ELSE w, LAMBDA w1 :
         IF ~Running(w1) THEN w1
         ELSE open_stream(w1, w1.self.streaming_port.v))

\* write_wav up to the loop: refresh an empty configuration, open the stream
\* socket unless the flag says it is open
write_wav_enter(w) ==
    Then(IF w.self.config_info.len = 0
         THEN Then(get_config(w), LAMBDA c : Assign(c, "config_info"))
         ELSE w, LAMBDA w1 :
         IF ~Running(w1) THEN w1
         ELSE IF w1.self.open_stream_port = FALSE THEN open_stream(w1, w1.self.streaming_port.v)
         ELSE w1)

\* the locals of write_wav once the file is open
wav_open(w, ms, close, filename) ==
    [pc |-> "loop", ms |-> ms, close |-> close, file |-> filename,
     npackets |-> npackets_of(ms, w.self.srate.v),
     totalPacketsCount |-> 0,
     framerate |-> w.self.srate.v, frames |-> <<>>, closed |-> FALSE,
     lost |-> 0]

\* a loop turn that counts a datagram arriving after a gap but does not write it
wav_turn_skip(c, w) ==
    LET seqGap == w.self.newSeqNum - w.self.oldSeqNum
    IN [c EXCEPT !.frames = IF seqGap > 1 THEN @ ELSE Append(@, w.ret.v),
                 !.totalPacketsCount = @ + 1,
                 !.lost = IF seqGap > 1 THEN seqGap ELSE 0]

\* one turn of the loop: the payload is written, the counter goes up, and a
\* gap above 1 is reported as "Lost: <seqGap> packets" (lost = 0: no report)
wav_turn(c, w) ==
    LET seqGap == w.self.newSeqNum - w.self.oldSeqNum
    IN [c EXCEPT !.frames = Append(@, w.ret.v),
                 !.totalPacketsCount = @ + 1,
                 !.lost = IF seqGap > 1 THEN seqGap ELSE 0]

\* ------------------------------------------------------------------------
\* Bounds and inputs
\* ------------------------------------------------------------------------
\* sockets one client creates per attribute
MaxSockets == 2
\* answers that may wait unread in the UDP receive buffer
MaxStale == 1
\* calls one run makes, per specification
MaxCalls == 3
MaxCallsTransport == 4
MaxCallsConfig == 3
MaxCallsStream == 3
MaxCallsSession == 5
MaxCallsTag == 4
MaxCallsCont == 3
\* seconds the wall clock advances during one run
MaxClock == 1

NoScript == [at |-> 0, beh |-> "ok"]

\* the device treats the at-th frame of the call as beh, all others faithfully
Scripts(n, D) == {NoScript} \cup {[at |-> k, beh |-> b] : k \in 1..n, b \in D}

FaithfulScript(sc) == sc.at = 0 \/ sc.beh \in {"okq", "split"}

AllDeviations == {"okq", "split", "drop", "late", "garble", "other"}
\* what the device may do with the connectivity probe
ProbeDeviations == {"drop", "late"}
\* what the device may do while the sample rate is set
SrateDeviations == {"okq", "drop"}

QueryParams == {P_SRATE, P_RPORT, P_RADDR, P_GAIN, P_EQ, P_STATE}
SetValues == {PyInt(10), PyStr(STOP)}
SrateInputs == {PyInt(50000), PyInt(100000), PyInt(200000), PyInt(12345)}
ChannelInputs == {PyInt(1), PyInt(2), PyInt(3)}
IpInputs == {PyStr(<<"1", ".", "2">>)}
PortInputs == {PyInt(4002), PyInt(5000)}
InterfaceInputs == {"udp", "serial", "tcp"}
\* capture durations in milliseconds (seconds = 0, 0.011, 0.021)
DurationInputs == {0, 11, 21}
\* durations of one file in continuous capture
ShortDurations == {0, 11}
SeqInputs == {2, 10, 11, 13, 65535}

\* ------------------------------------------------------------------------
\* State
\* ------------------------------------------------------------------------
NoCall == [op |-> "none", args |-> <<>>, exc |-> E_NONE, ret |-> PyNone,
           tx |-> <<>>, rx |-> <<>>, script |-> NoScript, pure |-> TRUE,
           before |-> <<>>]

InitSelf ==
    [interface |-> PyNone, socket |-> PyNone, serial |-> PyNone,
     streaming_port |-> PyInt(streaming_port),
     newSeqNum |-> -1, oldSeqNum |-> -1,
     open_stream_port |-> FALSE, stream_socket |-> [t |-> "unset"],
     config_info |-> EmptyDict,
     ch |-> PyInt(-1), srate |-> PyInt(-1),
     gain_status |-> PyInt(-1), eq_status |-> PyInt(-1)]

\* the settings the device holds when the session starts
Device(srate, ch) ==
    (P_IDN :> <<"A", "2">>) @@ (P_VER :> <<"1", ".", "0">>)
    @@ (P_RADDR :> <<"0", ".", "0">>) @@ (P_RPORT :> <<"0">>)
    @@ (P_SRATE :> IntToStr(srate))
    @@ (P_IN1 :> IF ch = 1 THEN <<"1">> ELSE <<"0">>)
    @@ (P_IN2 :> IF ch = 1 THEN <<"0">> ELSE <<"1">>)
    @@ (P_GAIN :> <<"0">>) @@ (P_EQ :> <<"0">>) @@ (P_STATE :> STOP)

Idle ==
    [pc |-> "idle", ms |-> 0, close |-> TRUE, file |-> 0, npackets |-> 0, totalPacketsCount |-> 0,
     framerate |-> 0, frames |-> <<>>, closed |-> TRUE, lost |-> 0]

\* write_wav_continuous is not running
NoLoop == [on |-> FALSE, ms |-> 0]

InitWith(devices, calls) ==
    /\ self = InitSelf
    /\ dev \in devices
    /\ udp_rx = <<>>
    /\ ser_rx = <<>>
    /\ last = NoCall
    /\ hung = FALSE
    /\ devFaithful = TRUE
    /\ clean = TRUE
    /\ budget = calls
    /\ cap = Idle
    /\ heap = <<EmptyDict>>
    /\ tasks = <<>>
    /\ files = <<>>
    /\ now = 0
    /\ cont = NoLoop

\* the world at the start of a call
World(script) ==
    [self |-> self, dev |-> dev, udp_rx |-> udp_rx, ser_rx |-> ser_rx,
     late |-> <<>>, tx |-> <<>>, rx |-> <<>>, script |-> script,
     exc |-> E_NONE, ret |-> PyNone, heap |-> heap]

\* the client thread is free to make a call
Ready == ~hung /\ cap.pc = "idle" /\ ~cont.on /\ budget > 0

CanDeviate(script) == script.beh = "late" => Len(udp_rx) < MaxStale

\* what the call just made leaves behind; an answer still in flight when the
\* call ends reaches the receive buffer of the medium it was asked over
Commit(op, args, w) ==
    /\ self' = w.self
    /\ dev' = w.dev
    /\ udp_rx' = IF w.self.interface = PyStr("udp") THEN w.udp_rx \o w.late ELSE w.udp_rx
    /\ ser_rx' = IF w.self.interface = PyStr("serial") THEN w.ser_rx \o Flatten(w.late) ELSE w.ser_rx
    /\ last' = [op |-> op, args |-> args, exc |-> w.exc, ret |-> w.ret,
                tx |-> w.tx, rx |-> w.rx, script |-> w.script, pure |-> devFaithful,
                before |-> IF last.exc = E_NONE THEN <<last.op, last.args>> ELSE <<>>]
    /\ hung' = (w.exc = E_HANG)
    /\ devFaithful' = (devFaithful /\ FaithfulScript(w.script))
    /\ clean' = (clean /\ w.exc = E_NONE)
    /\ budget' = budget - 1
    /\ heap' = w.heap

\* ------------------------------------------------------------------------
\* Actions: one per public method the caller may invoke.  D is the set of
\* deviations the device may show during the call.
\* ------------------------------------------------------------------------
Call_init_serial ==
    /\ Ready
    /\ \E opens \in BOOLEAN :
          Commit("init_serial", <<>>, init_serial(World(NoScript), opens))
    /\ UNCHANGED <<cap, tasks, files, now, cont>>

Call_init_udp(D) ==
    /\ Ready
    /\ SocketId(self.socket) < MaxSockets
    /\ \E sc \in Scripts(1, D) :
          CanDeviate(sc) /\ Commit("init_udp", <<>>, init_udp(World(sc)))
    /\ UNCHANGED <<cap, tasks, files, now, cont>>

Call_set_interface ==
    /\ Ready
    /\ \E i \in InterfaceInputs :
          Commit("set_interface", <<i>>, set_interface(World(NoScript), i))
    /\ UNCHANGED <<cap, tasks, files, now, cont>>

Call_query(P, D) ==
    /\ Ready
    /\ \E p \in P, sc \in Scripts(1, D) :
          CanDeviate(sc) /\ Commit("query", <<p>>, query(World(sc), <<p, QM>>))
    /\ UNCHANGED <<cap, tasks, files, now, cont>>

Call_set(P, D) ==
    /\ Ready
    /\ \E p \in P, v \in SetValues, enclose \in BOOLEAN, sc \in Scripts(2, D) :
          CanDeviate(sc) /\ Commit("set", <<p, v, enclose>>, set(World(sc), p, v, enclose))
    /\ UNCHANGED <<cap, tasks, files, now, cont>>

Call_set_recv_ip(D) ==
    /\ Ready
    /\ \E ip \in IpInputs, sc \in Scripts(2, D) :
          CanDeviate(sc) /\ Commit("set_recv_ip", <<ip>>, set_recv_ip(World(sc), ip))
    /\ UNCHANGED <<cap, tasks, files, now, cont>>

Call_set_recv_port(D) ==
    /\ Ready
    /\ \E port \in PortInputs, sc \in Scripts(2, D) :
          CanDeviate(sc) /\ Commit("set_recv_port", <<port>>, set_recv_port(World(sc), port))
    /\ UNCHANGED <<cap, tasks, files, now, cont>>

Call_set_srate(D) ==
    /\ Ready
    /\ \E srate \in SrateInputs, sc \in Scripts(2, D) :
          CanDeviate(sc) /\ Commit("set_srate", <<srate>>, set_srate(World(sc), srate))
    /\ UNCHANGED <<cap, tasks, files, now, cont>>

Call_set_channel(D) ==
    /\ Ready
    /\ \E ch \in ChannelInputs, sc \in Scripts(2, D) :
          CanDeviate(sc) /\ Commit("set_channel", <<ch>>, set_channel(World(sc), ch))
    /\ UNCHANGED <<cap, tasks, files, now, cont>>

Call_set_gain(D) ==
    /\ Ready
    /\ \E b \in BOOLEAN, sc \in Scripts(2, D) :
          CanDeviate(sc) /\ Commit("set_gain", <<PyBool(b)>>, set_gain(World(sc), PyBool(b)))
    /\ UNCHANGED <<cap, tasks, files, now, cont>>

Call_set_equalizer(D) ==
    /\ Ready
    /\ \E b \in BOOLEAN, sc \in Scripts(2, D) :
          CanDeviate(sc) /\ Commit("set_equalizer", <<PyBool(b)>>, set_equalizer(World(sc), PyBool(b)))
    /\ UNCHANGED <<cap, tasks, files, now, cont>>

Call_get_config(D) ==
    /\ Ready
    /\ \E sc \in Scripts(6, D) :
          CanDeviate(sc) /\ Commit("get_config", <<>>, get_config(World(sc)))
    /\ UNCHANGED <<cap, tasks, files, now, cont>>

Call_start_streaming(D) ==
    /\ Ready
    /\ \E sc \in Scripts(10, D) :
          CanDeviate(sc) /\ Commit("start_streaming", <<>>, start_streaming(World(sc)))
    /\ UNCHANGED <<cap, tasks, files, now, cont>>

Call_stop_streaming(D) ==
    /\ Ready
    /\ \E sc \in Scripts(2, D) :
          CanDeviate(sc) /\ Commit("stop_streaming", <<>>, stop_streaming(World(sc)))
    /\ UNCHANGED <<cap, tasks, files, now, cont>>

Call_open_stream ==
    /\ Ready
    /\ SocketId(self.stream_socket) < MaxSockets
    /\ \E port \in PortInputs :
          Commit("open_stream", <<port>>, open_stream(World(NoScript), port.v))
    /\ UNCHANGED <<cap, tasks, files, now, cont>>

Call_close_stream ==
    /\ Ready
    /\ Commit("close_stream", <<>>, close_stream(World(NoScript)))
    /\ UNCHANGED <<cap, tasks, files, now, cont>>

\* timestamp.strftime("%Y%m%d_%H%M%Sz"): the file name is the prefix and the
\* time of day in whole seconds
filename_of(t) == t

\* wave.open(filename, 'w'): the file is created, or truncated when it exists
wave_open(fs, name) ==
    (name :> [frames |-> <<>>, closed |-> FALSE, tags |-> <<>>,
              opens |-> IF name \in DOMAIN fs THEN fs[name].opens + 1 ELSE 1])
    @@ fs

\* write_wav(seconds, close=close) from its first line to the head of its loop
write_wav_begin(ms, close, sc) ==
    LET w == write_wav_enter(World(sc))
    IN /\ CanDeviate(sc)
       /\ Commit("write_wav", <<ms, close>>, w)
       /\ cap' = IF Running(w) THEN wav_open(w, ms, close, filename_of(now)) ELSE cap
       /\ files' = IF Running(w) THEN wave_open(files, filename_of(now)) ELSE files
       /\ cont' = IF Running(w) THEN cont ELSE NoLoop

Call_write_wav(S, D) ==
    /\ Ready
    /\ SocketId(self.stream_socket) < MaxSockets
    /\ \E ms \in S, close \in BOOLEAN, sc \in Scripts(6, D) :
          write_wav_begin(ms, close, sc)
    /\ UNCHANGED <<tasks, now>>

\* write_wav_continuous(seconds): the caller enters the endless loop
Call_write_wav_continuous(S) ==
    /\ Ready
    /\ \E ms \in S : cont' = [on |-> TRUE, ms |-> ms]
    /\ UNCHANGED <<self, dev, udp_rx, ser_rx, last, hung, devFaithful, clean, budget,
                   cap, heap, tasks, files, now>>

\* while True: self.write_wav(seconds, prefix=prefix)
Cont_iterate ==
    /\ cont.on
    /\ ~hung
    /\ cap.pc = "idle"
    /\ budget > 0
    /\ SocketId(self.stream_socket) < MaxSockets
    /\ write_wav_begin(cont.ms, TRUE, NoScript)
    /\ UNCHANGED <<tasks, now>>

\* while totalPacketsCount < npackets: one datagram arrives and is written
Wav_receive(Q) ==
    /\ cap.pc = "loop"
    /\ cap.totalPacketsCount < cap.npackets
    /\ \E seq \in Q :
          LET w == receivePacket(World(NoScript), Packet(seq, cap.totalPacketsCount + 1))
          IN /\ self' = w.self
             /\ IF Running(w)
                THEN /\ cap' = wav_turn(cap, w)
                     /\ files' = [files EXCEPT ![cap.file].frames = cap'.frames]
                     /\ last' = last /\ clean' = clean /\ cont' = cont
                ELSE /\ cap' = [cap EXCEPT !.pc = "idle"]
                     /\ files' = files
                     /\ last' = [last EXCEPT !.exc = w.exc]
                     /\ clean' = FALSE
                     /\ cont' = NoLoop
    /\ UNCHANGED <<dev, udp_rx, ser_rx, hung, devFaithful, budget, heap, tasks, now>>

\* the detached task started for a finished file: the file name and the dict
\* self.config_info refers to at that moment (handed: what that dict held)
Task(name) ==
    [file |-> name, tags |-> Len(heap), handed |-> heap[Len(heap)],
     pc |-> "open", read |-> <<>>]

\* the loop is over: obj.close(), close_stream() if close, the metadata
\* thread is started, return 1
Wav_finish ==
    /\ cap.pc = "loop"
    /\ ~(cap.totalPacketsCount < cap.npackets)
    /\ LET w == IF cap.close THEN close_stream(World(NoScript)) ELSE World(NoScript)
       IN /\ self' = w.self
          /\ cap' = [cap EXCEPT !.pc = "idle", !.closed = TRUE]
          /\ files' = [files EXCEPT ![cap.file].closed = TRUE]
          /\ tasks' = Append(tasks, Task(cap.file))
          /\ last' = [last EXCEPT !.ret = PyInt(1)]
    /\ UNCHANGED <<dev, udp_rx, ser_rx, hung, devFaithful, clean, budget, heap, now, cont>>

\* keys of the configuration dict, in insertion order
ItemKeys == <<"name", "version", "channel", "srate", "gain", "equalizer">>

\* add_id3_tags: wave = WAVE(filename); wave.add_tags()
Tag_open ==
    /\ \E i \in 1..Len(tasks) :
          /\ tasks[i].pc = "open"
          /\ tasks' = [tasks EXCEPT ![i].pc = "items"]
    /\ UNCHANGED <<self, dev, udp_rx, ser_rx, last, hung, devFaithful, clean, budget,
                   cap, heap, files, now, cont>>

\* for key, value in tags.items(): one item of the dict is read and added
Tag_item ==
    /\ \E i \in 1..Len(tasks) :
          /\ tasks[i].pc = "items"
          /\ Len(tasks[i].read) < heap[tasks[i].tags].len
          /\ tasks' = [tasks EXCEPT ![i].read =
                          Append(@, heap[tasks[i].tags].items[ItemKeys[Len(@) + 1]])]
    /\ UNCHANGED <<self, dev, udp_rx, ser_rx, last, hung, devFaithful, clean, budget,
                   cap, heap, files, now, cont>>

\* the items are exhausted: wave.save()
Tag_save ==
    /\ \E i \in 1..Len(tasks) :
          /\ tasks[i].pc = "items"
          /\ ~(Len(tasks[i].read) < heap[tasks[i].tags].len)
          /\ tasks' = [tasks EXCEPT ![i].pc = "done"]
          /\ files' = [files EXCEPT ![tasks[i].file].tags = tasks[i].read]
    /\ UNCHANGED <<self, dev, udp_rx, ser_rx, last, hung, devFaithful, clean, budget,
                   cap, heap, now, cont>>

\* one second passes on the wall clock
Tick ==
    /\ now < MaxClock
    /\ now' = now + 1
    /\ UNCHANGED <<self, dev, udp_rx, ser_rx, last, hung, devFaithful, clean, budget,
                   cap, heap, tasks, files, cont>>

\* ------------------------------------------------------------------------
\* Specifications
\* ------------------------------------------------------------------------
\* the command protocol: set, query and the wrappers, against a device that
\* may deviate
Init == InitWith({Device(100000, 1)}, MaxCalls)

Next ==
    \/ Call_init_serial
    \/ Call_init_udp(ProbeDeviations)
    \/ Call_query(QueryParams, AllDeviations)
    \/ Call_set({P_STATE}, AllDeviations)
    \/ Call_set_recv_ip({"okq"})
    \/ Call_set_recv_port({"okq"})
    \/ Call_set_srate(SrateDeviations)
    \/ Call_set_gain({"okq"})
    \/ Call_set_equalizer({"okq"})

Spec == Init /\ [][Next]_vars


\* the two initialisers and the interface selector
InitTransport == InitWith({Device(100000, 1)}, MaxCallsTransport)

NextTransport ==
    \/ Call_init_serial
    \/ Call_init_udp({"drop"})
    \/ Call_set_interface
    \/ Call_query({P_SRATE}, {"drop"})

SpecTransport == InitTransport /\ [][NextTransport]_vars

\* configuration refresh and start/stop streaming, against a device that may
\* stay silent or answer with another value at any frame
ConfigDeviations == {"drop", "other"}
StartDeviations == {"drop", "other", "garble"}

InitConfig == InitWith({Device(100000, 1), Device(50000, 2)}, MaxCallsConfig)

NextConfig ==
    \/ Call_init_udp({})
    \/ Call_get_config(ConfigDeviations)
    \/ Call_start_streaming(StartDeviations)
    \/ Call_stop_streaming(ConfigDeviations)
    \/ Call_set_srate({})
    \/ Call_set_channel({})
    \/ Call_set_gain({})

SpecConfig == InitConfig /\ [][NextConfig]_vars

\* the stream socket and the capture loop, against a faithful device that
\* numbers its datagrams in any way
InitStream == InitWith({Device(r, c) : r \in valid_srates, c \in {1, 2}}, MaxCallsStream)

NextStream ==
    \/ Call_init_udp({})
    \/ Call_get_config({})
    \/ Call_open_stream
    \/ Call_close_stream
    \/ Call_write_wav(DurationInputs, {})
    \/ Wav_receive(SeqInputs)
    \/ Wav_finish

SpecStream == InitStream /\ [][NextStream]_vars

\* a whole session as the example script runs it, against a faithful device
\* that numbers its datagrams consecutively
SeqNext == IF self.newSeqNum = -1 THEN 0 ELSE (self.newSeqNum + 1) % 65536

InitSession == InitWith({Device(100000, 1)}, MaxCallsSession)

NextSession ==
    \/ Call_init_udp({})
    \/ Call_start_streaming({})
    \/ Call_stop_streaming({})
    \/ Call_set_srate({})
    \/ Call_get_config({})
    \/ Call_write_wav({11}, {})
    \/ Wav_receive({SeqNext})
    \/ Wav_finish

SpecSession == InitSession /\ [][NextSession]_vars

\* captures whose tagging tasks run while the client goes on refreshing and
\* capturing, against a faithful device
InitTag == InitWith({Device(100000, 1)}, MaxCallsTag)

NextTag ==
    \/ Call_init_udp({})
    \/ Call_set_srate({})
    \/ Call_get_config({})
    \/ Call_write_wav({11}, {})
    \/ Wav_receive({SeqNext})
    \/ Wav_finish
    \/ Tag_open
    \/ Tag_item
    \/ Tag_save

SpecTag == InitTag /\ [][NextTag]_vars

\* continuous capture of less than a second per file while the clock runs
InitCont == InitWith({Device(100000, 1)}, MaxCallsCont)

NextCont ==
    \/ Call_init_udp({})
    \/ Call_write_wav_continuous(ShortDurations)
    \/ Cont_iterate
    \/ Wav_receive(SeqInputs)
    \/ Wav_finish
    \/ Tag_open
    \/ Tag_item
    \/ Tag_save
    \/ Tick

SpecCont == InitCont /\ [][NextCont]_vars

\* ------------------------------------------------------------------------
\* Claims
\* ------------------------------------------------------------------------
F_set(p, v) == <<p, SP>> \o v \o <<CR, LF>>
F_query(p) == <<p, QM, CR, LF>>

IsPrefix(a, b) == Len(a) <= Len(b) /\ SubSeq(b, 1, Len(a)) = a

SetOps == {"set", "set_srate", "set_recv_port", "set_recv_ip", "set_gain", "set_equalizer"}

\* the command path a set-like call writes, and the string form of its value
ParamOf(op, args) ==
    CASE op = "set" -> args[1]
      [] op = "set_srate" -> P_SRATE
      [] op = "set_recv_port" -> P_RPORT
      [] op = "set_recv_ip" -> P_RADDR
      [] op = "set_gain" -> P_GAIN
      [] op = "set_equalizer" -> P_EQ
      [] OTHER -> "-"

ValueOf(op, args) ==
    CASE op = "set" -> (IF args[2].t = "int" THEN IntToStr(args[2].v) ELSE args[2].v)
      [] op \in {"set_srate", "set_recv_port"} -> IntToStr(args[1].v)
      [] op = "set_recv_ip" -> args[1].v
      [] op \in {"set_gain", "set_equalizer"} -> (IF args[1].v THEN <<"1">> ELSE <<"0">>)
      [] OTHER -> <<>>

ValidArgs(op, args) == op = "set_srate" => args[1].v \in {50000, 100000, 200000}

\* n = floor(a / b), for b > 0
IsFloor(n, a, b) == n * b <= a /\ a < (n + 1) * b

\* C1: when the device echoes a value different from the requested one (the
\* answer read by the verification query, a leading and a trailing quote
\* aside, is not the string form of the value), set fails with the
\* verification-mismatch error and never returns normally.
C1_MismatchAlwaysFails ==
    (/\ last.op = "set"
     /\ Len(last.rx) = 1
     /\ Unquote(last.rx[1]) # ValueOf("set", last.args))
        => last.exc = E_MISMATCH

\* C2: against a device that stores and echoes faithfully, every set-like
\* call with a valid value succeeds, and a query of the same parameter made
\* immediately after it returns the string form of the value, without quotes.
C2_RoundTrip ==
    /\ (/\ last.op \in SetOps
        /\ ValidArgs(last.op, last.args)
        /\ devFaithful
        /\ ~Falsy(self.interface))
           => last.exc = E_NONE
    /\ (/\ last.op = "query"
        /\ last.before # <<>>
        /\ last.before[1] \in SetOps
        /\ ParamOf(last.before[1], last.before[2]) = last.args[1]
        /\ devFaithful)
           => /\ last.exc = E_NONE
              /\ last.ret = PyStr(ValueOf(last.before[1], last.before[2]))

\* a quoted receiver IP was set, and the query right after it got a quoted
\* answer and returned the bare address
C2_Witness ==
    /\ last.op = "query"
    /\ last.args = <<P_RADDR>>
    /\ last.before = <<"set_recv_ip", <<PyStr(<<"1", ".", "2">>)>> >>
    /\ devFaithful
    /\ last.script = [at |-> 1, beh |-> "okq"]
    /\ last.rx = << <<DQ, "1", ".", "2", DQ>> >>
    /\ last.ret = PyStr(<<"1", ".", "2">>)

\* C3: for consecutive received sequence numbers (previous, current) the gap
\* is (current - previous) mod 65536; a gap above 1 is reported as gap - 1
\* lost packets (2 for previous = 65535, current = 2) and a gap of 1 is not
\* reported.
C3_GapReport ==
    (cap.totalPacketsCount >= 2)
        => LET gap == (self.newSeqNum - self.oldSeqNum) % 65536
           IN cap.lost = IF gap > 1 THEN gap - 1 ELSE 0

\* C4: a bounded capture of `seconds` at cached rate r writes exactly
\* floor(seconds * r / 512) payloads, in arrival order, before it closes the
\* file, whatever the sequence numbers of the datagrams; 1953 payloads, that
\* is 999936 frames, for 10 s at 100000 Hz.
C4_PacketCount ==
    /\ cap.pc = "loop"
          => /\ ~cap.closed
             /\ Len(cap.frames) = cap.totalPacketsCount
             /\ \A i \in 1..Len(cap.frames) : cap.frames[i] = i
             /\ Len(cap.frames) * 1000 * 512 <= cap.ms * self.srate.v
    /\ (last.op = "write_wav" /\ last.ret = PyInt(1))
          => /\ cap.closed
             /\ IsFloor(Len(cap.frames), cap.ms * self.srate.v, 1000 * 512)
             /\ \A i \in 1..Len(cap.frames) : cap.frames[i] = i
    /\ npackets_of(10 * 1000, 100000) = 1953
    /\ 1953 * samplesPerPacket = 999936

\* a 21 ms capture at 200000 Hz ended with all 8 payloads written although
\* the last datagram arrived after a gap
C4_Witness ==
    /\ last.op = "write_wav"
    /\ last.ret = PyInt(1)
    /\ cap.closed
    /\ cap.ms = 21
    /\ self.srate = PyInt(200000)
    /\ Len(cap.frames) = 8
    /\ cap.lost > 0

\* C5: initialising a medium while one is active fails and leaves the active
\* medium alone, so at most one of the serial handle and the UDP socket is
\* ever set, and the selected interface names the medium that was initialised.
C5_OneMedium ==
    /\ ~(self.serial # PyNone /\ self.socket # PyNone)
    /\ self.interface = PyStr("serial") => self.serial # PyNone
    /\ self.interface = PyStr("udp") => self.socket # PyNone

\* C6: when every call so far succeeded against a faithful device, a capture
\* that begins uses the sample rate the device is configured with at that
\* moment, for the WAV frame rate and for the packet-count target.
C6_CaptureUsesDeviceRate ==
    (cap.pc = "loop" /\ clean /\ devFaithful)
        => /\ cap.framerate = StrToInt(dev[P_SRATE])
           /\ IsFloor(cap.npackets, cap.ms * StrToInt(dev[P_SRATE]), 1000 * 512)

\* C7: set_srate with a rate outside {50000, 100000, 200000} and set_channel
\* with a channel outside {1, 2} are rejected before any I/O: no frame is
\* sent, no answer is read, and the device, the receive buffers and the
\* client's cached state are unchanged.
C7_InvalidRejectedBeforeIO ==
    [][(/\ budget' < budget
        /\ \/ last'.op = "set_srate" /\ last'.args[1].v \notin {50000, 100000, 200000}
           \/ last'.op = "set_channel" /\ last'.args[1].v \notin {1, 2})
          => /\ last'.exc = E_ASSERT
             /\ last'.tx = <<>>
             /\ last'.rx = <<>>
             /\ dev' = dev
             /\ self' = self
             /\ udp_rx' = udp_rx
             /\ ser_rx' = ser_rx]_vars

\* set_srate(12345) was rejected on a connected client holding a refreshed
\* configuration
C7_Witness ==
    /\ last.op = "set_srate"
    /\ last.args = <<PyInt(12345)>>
    /\ last.exc = E_ASSERT
    /\ last.tx = <<>>
    /\ self.config_info.len = 6
    /\ ~Falsy(self.interface)

\* C8: when the device never answers the query of a call, the call ends with
\* a timeout failure on either transport instead of blocking forever, and
\* nothing is sent again.
C8_SilenceTimesOut ==
    (/\ last.op = "query"
     /\ last.pure
     /\ last.script = [at |-> 1, beh |-> "drop"]
     /\ last.tx # <<>>)
        => /\ last.exc = E_TIMEOUT
           /\ ~hung
           /\ Len(last.tx) = 1

\* C9: open_stream while the stream socket is bound fails and leaves the
\* socket and the open flag as they were.
C9_SecondOpenFails ==
    [][(/\ budget' < budget
        /\ last'.op = "open_stream"
        /\ self.open_stream_port)
          => /\ last'.exc # E_NONE
             /\ self'.stream_socket = self.stream_socket
             /\ self'.open_stream_port = self.open_stream_port]_vars

\* frames start_streaming sends when every step succeeds
StartFrames(ch1) ==
    << F_set(P_RPORT, IntToStr(streaming_port)), F_query(P_RPORT), F_query(P_IN1) >>
    \o (IF ch1 THEN << F_query(P_EQ), F_query(P_GAIN) >> ELSE <<>>)
    \o << F_query(P_SRATE), F_query(P_IDN), F_query(P_VER),
          F_set(P_STATE, RUN_CONTINUOUS), F_query(P_STATE) >>

StopFrames == << F_set(P_STATE, STOP), F_query(P_STATE) >>

SentRunState(tx) == \E i \in 1..Len(tx) : tx[i] = F_set(P_STATE, RUN_CONTINUOUS)

\* C10: start_streaming sends its frames in the order port set and check,
\* configuration refresh, run-state set and check; the run-state command is
\* sent only after the port was verified and the configuration refreshed, so
\* a failure in either leaves the device's run state untouched.
\* stop_streaming sends only the STOP set and its verification query.
C10_StartStopOrder ==
    /\ [](/\ last.op = "start_streaming"
             => /\ \E ch1 \in BOOLEAN : IsPrefix(last.tx, StartFrames(ch1))
                /\ SentRunState(last.tx)
                      => /\ RemoveAll(last.rx[1], DQ) = IntToStr(streaming_port)
                         /\ self.config_info.len = 6
                         /\ Len(last.rx) >= Len(last.tx) - 3
          /\ last.op = "stop_streaming"
             => last.tx \in {<<>>, StopFrames})
    /\ [][(/\ budget' < budget
           /\ last'.op = "start_streaming"
           /\ ~SentRunState(last'.tx))
             => dev'[P_STATE] = dev[P_STATE]]_vars

\* start_streaming stopped at a failed port verification with the device
\* still in STOP
C10_Witness ==
    /\ last.op = "start_streaming"
    /\ last.exc = E_MISMATCH
    /\ Len(last.tx) = 2
    /\ dev[P_STATE] = STOP

\* the cached configuration of the client
Cached(c) == <<c.config_info, c.ch, c.srate, c.gain_status, c.eq_status>>

\* C11: a get_config refresh either re-reads every field and replaces the
\* whole cached configuration, or, when one of its queries fails, leaves
\* config_info, ch, srate, gain_status and eq_status as they were.
C11_RefreshAllOrNothing ==
    [][(budget' < budget /\ last'.op = "get_config")
          => IF last'.exc = E_NONE
             THEN /\ self'.config_info.len = 6
                  /\ self'.config_info.items.channel = self'.ch
                  /\ self'.config_info.items.srate = self'.srate
                  /\ Len(last'.rx) = Len(last'.tx)
             ELSE Cached(self') = Cached(self)]_vars

\* C12: the dict handed to a tagging task holds the configuration cached
\* when its file was finalised and never changes afterwards: whatever
\* refreshes, captures and other tagging tasks run meanwhile, every value the
\* task reads is the value the dict held at hand-off.
C12_TagsAreSnapshot ==
    \A i \in 1..Len(tasks) :
        /\ heap[tasks[i].tags] = tasks[i].handed
        /\ tasks[i].handed.len = 6
        /\ \A k \in 1..Len(tasks[i].read) :
              tasks[i].read[k] = tasks[i].handed.items[ItemKeys[k]]
        /\ tasks[i].pc = "done" => Len(tasks[i].read) = 6

\* a tagging task is half way through its dict while the client's cached
\* configuration has already been replaced by a refresh with another rate
C12_Witness ==
    \E i \in 1..Len(tasks) :
        /\ tasks[i].pc = "items"
        /\ Len(tasks[i].read) = 3
        /\ self.config_info.len = 6
        /\ self.config_info.items.srate # tasks[i].handed.items.srate

\* C13: in continuous capture every iteration writes a file of its own: no
\* file is opened for writing a second time, so a file completed by an
\* earlier iteration is never truncated or overwritten, and every completed
\* file holds exactly the packet-count target of payloads.
C13_OneFilePerIteration ==
    cont.on
        => \A f \in DOMAIN files :
              /\ files[f].opens = 1
              /\ (files[f].closed /\ self.srate.t = "int")
                    => IsFloor(Len(files[f].frames), cont.ms * self.srate.v, 1000 * 512)

\* the stream socket is bound and not closed
Bound(c) == c.stream_socket.t = "socket" /\ ~c.stream_socket.closed

\* C14: across write_wav calls the open flag is true exactly when a stream
\* socket is bound; write_wav binds a socket only when the flag is false and
\* otherwise reuses the bound one; when write_wav returns the socket is
\* closed if close=True and still bound if close=False.
C14_StreamLifecycle ==
    /\ [](self.open_stream_port <=> Bound(self))
    /\ [][(budget' < budget /\ last'.op = "write_wav")
             => IF self.open_stream_port \/ last'.exc # E_NONE
                THEN self'.stream_socket = self.stream_socket
                ELSE /\ Bound(self')
                     /\ SocketId(self'.stream_socket) = SocketId(self.stream_socket) + 1]_vars
    /\ [][(cap.pc = "loop" /\ cap'.pc = "idle" /\ last'.ret = PyInt(1))
             => /\ Bound(self') <=> ~cap.close
                /\ SocketId(self'.stream_socket) = SocketId(self.stream_socket)]_vars

\* a capture running on the socket that the previous capture, made with
\* close=False, left bound
C14_Witness ==
    /\ last.op = "write_wav"
    /\ last.before = <<"write_wav", <<11, FALSE>> >>
    /\ cap.pc = "loop"
    /\ self.open_stream_port
    /\ SocketId(self.stream_socket) = 1

\* C15: the first packet received in a bounded capture never produces a loss
\* report, whatever sequence number the previous capture ended on.
C15_FirstPacketNoReport ==
    (cap.pc = "loop" /\ cap.totalPacketsCount = 1) => cap.lost = 0

\* the frame set(param, value, enclose) sends for its command
F_cmd(args) ==
    IF args[3] THEN <<args[1], SP, DQ>> \o ValueOf("set", args) \o <<DQ, CR, LF>>
    ELSE F_set(args[1], ValueOf("set", args))

\* C16: on a connected client one set, successful or failed, sends exactly
\* two frames, the set frame and then the query frame "param?", and reads at
\* most one response (one unless the read timed out or blocked); one query
\* sends exactly one frame and reads at most one response; nothing is sent
\* again after a timeout or a verification mismatch.
C16_NoRetry ==
    /\ (last.op = "set" /\ ~Falsy(self.interface))
          => /\ last.tx = << F_cmd(last.args), F_query(last.args[1]) >>
             /\ Len(last.rx) <= 1
             /\ Len(last.rx) = 1 <=> last.exc \in {E_NONE, E_MISMATCH}
    /\ (last.op = "query" /\ ~Falsy(self.interface))
          => /\ last.tx = << F_query(last.args[1]) >>
             /\ Len(last.rx) <= 1
             /\ Len(last.rx) = 1 <=> last.exc = E_NONE

\* a set whose verification failed after its two frames and one response
C16_Witness ==
    /\ last.op = "set"
    /\ last.exc = E_MISMATCH
    /\ Len(last.tx) = 2
    /\ Len(last.rx) = 1
    /\ last.script.beh = "other"

\* C17: a cached configuration filled by a refresh against a device in a
\* valid state has its channel in {1, 2} and its sample rate in {50000,
\* 100000, 200000}; its gain and equalizer are "na" exactly when the channel
\* is 2, and the values the device reported when the channel is 1.
C17_ConfigWellFormed ==
    /\ []((self.config_info.len = 6 /\ devFaithful)
            => /\ self.config_info.items.channel \in {PyInt(1), PyInt(2)}
               /\ self.config_info.items.srate \in {PyInt(50000), PyInt(100000), PyInt(200000)}
               /\ self.config_info.items.channel = PyInt(2)
                     <=> self.config_info.items.gain = PyStr(NA)
               /\ self.config_info.items.channel = PyInt(2)
                     <=> self.config_info.items.equalizer = PyStr(NA))
    /\ [][(/\ budget' < budget
           /\ last'.op = "get_config"
           /\ last'.exc = E_NONE
           /\ devFaithful'
           /\ self'.config_info.items.channel = PyInt(1))
             => /\ self'.config_info.items.gain = PyStr(dev'[P_GAIN])
                /\ self'.config_info.items.equalizer = PyStr(dev'[P_EQ])]_vars

\* a refresh on channel 1 right after the gain was switched on
C17_Witness ==
    /\ last.op = "get_config"
    /\ last.exc = E_NONE
    /\ last.before = <<"set_gain", <<PyBool(TRUE)>> >>
    /\ devFaithful
    /\ self.config_info.items.channel = PyInt(1)
    /\ self.config_info.items.gain = PyStr(<<"1">>)
    /\ self.config_info.items.equalizer = PyStr(<<"0">>)

\* frames one full get_config refresh sends
RefreshFrames(ch1) ==
    << F_query(P_IN1) >>
    \o (IF ch1 THEN << F_query(P_EQ), F_query(P_GAIN) >> ELSE <<>>)
    \o << F_query(P_SRATE), F_query(P_IDN), F_query(P_VER) >>

\* C18: write_wav refreshes the configuration exactly when the cache is
\* empty: with a non-empty cache it sends no command and leaves the cached
\* configuration and the device as they are; with an empty cache it makes
\* one full get_config refresh and computes the packet target from the
\* refreshed rate.
C18_RefreshOnlyWhenEmpty ==
    [][(budget' < budget /\ last'.op = "write_wav")
          => IF self.config_info.len # 0
             THEN /\ last'.tx = <<>>
                  /\ last'.rx = <<>>
                  /\ Cached(self') = Cached(self)
                  /\ dev' = dev
             ELSE /\ \E ch1 \in BOOLEAN : IsPrefix(last'.tx, RefreshFrames(ch1))
                  /\ last'.exc = E_NONE
                        => /\ last'.tx = RefreshFrames(dev[P_IN1] = <<"1">>)
                           /\ Len(last'.rx) = Len(last'.tx)
                           /\ self'.config_info.len = 6
                           /\ cap'.framerate = StrToInt(dev[P_SRATE])
                           /\ IsFloor(cap'.npackets, cap'.ms * StrToInt(dev[P_SRATE]), 1000 * 512)]_vars

\* a capture started on a cached configuration without a single frame sent
C18_Witness ==
    /\ last.op = "write_wav"
    /\ last.exc = E_NONE
    /\ last.before = <<"get_config", <<>> >>
    /\ last.tx = <<>>
    /\ self.config_info.len = 6
    /\ cap.pc = "loop"

\* C19: over UDP the string a query returns is the device's response to the
\* command this query sent, never the response to an earlier command, also
\* after an earlier exchange timed out and its response arrived late.
C19_AnswerMatchesCommand ==
    (/\ last.op = "query"
     /\ last.exc = E_NONE
     /\ self.interface = PyStr("udp")
     /\ FaithfulScript(last.script))
        => last.ret = PyStr(dev[last.args[1]])

====
